---- MODULE Spec2Model ----
(***************************************************************************)
(* A model of imgutil's CNBImageCore (src/cnb_image.go): the working image *)
(* i.Image of a session, and the layer operations that replace it          *)
(* (AddLayerWithHistory, ReuseLayer, ReuseLayerWithHistory, Rebase) on top *)
(* of MutateConfigFile.                                                    *)
(*                                                                         *)
(* An image value is a record: its layers (by diff ID), its config file    *)
(* and its manifest.  A Go nil v1.Image is the record NilImage.  Every     *)
(* method returns the new value of i.Image together with the error it      *)
(* returns; "panic" stands for a run-time panic of the Go program.         *)
(***************************************************************************)
EXTENDS Integers, Sequences, FiniteSets, TLC

\* ------------------------------------------------------------------ bounds
MaxLayers == 3

\* ------------------------------------------------------------- value sets
\* Well-formed diff IDs ("sha256:<hex>"), and one string v1.NewHash rejects.
DiffIDs == {"sha256:a", "sha256:b"}
BadDiffID == "not-a-hash"
DiffIDStrings == DiffIDs \cup {BadDiffID}

ZeroTime == "0001-01-01T00:00:00Z"
NormalizedDateTime == "1980-01-01T00:00:01Z"
BuildTime == "2024-05-01T10:00:00Z"
OldTime == "2020-02-02T02:02:02Z"

\* v1.History, reduced to Created, CreatedBy and EmptyLayer.
History(created, createdBy, emptyLayer) ==
    [created |-> created, createdBy |-> createdBy, emptyLayer |-> emptyLayer]

emptyHistory == History(NormalizedDateTime, "", FALSE)

\* The history entries a caller passes in.
HistoryInputs ==
    { emptyHistory, History(OldTime, "RUN make", FALSE) }

\* ------------------------------------------------------------ image values
Platform(os, arch, variant, osVersion, osFeatures) ==
    [os |-> os, architecture |-> arch, variant |-> variant,
     osVersion |-> osVersion, osFeatures |-> osFeatures]

\* mfest.Config.Platform is a pointer: <<>> is nil, <<p>> points to p.
NoPlatform == <<>>

\* A map[string]string is a function on its keys; NoMap is the empty map.
NoMap == [k \in {} |-> ""]

\* v1.ConfigFile: created is Created, env is Config.Env (one "key=value"
\* string per entry, a string being the sequence of its characters).
ConfigFile(os, arch, variant, osVersion, osFeatures, history, diffIDs) ==
    [os |-> os, architecture |-> arch, variant |-> variant,
     osVersion |-> osVersion, osFeatures |-> osFeatures,
     history |-> history, diffIDs |-> diffIDs,
     created |-> ZeroTime, env |-> <<>>]

\* The image with its manifest: platform is Config.Platform, features its
\* Features, urls is Config.URLs, annotations is Annotations.
Image(layers, config, platform) ==
    [isNil |-> FALSE, layers |-> layers, config |-> config,
     platform |-> platform, features |-> <<>>, urls |-> <<>>,
     annotations |-> NoMap]

NilImage ==
    [isNil |-> TRUE, layers |-> <<>>,
     config |-> ConfigFile("", "", "", "", <<>>, <<>>, <<>>),
     platform |-> NoPlatform, features |-> <<>>, urls |-> <<>>,
     annotations |-> NoMap]

\* What a method leaves behind: the new i.Image and the returned error.
Ret(img, err) == [image |-> img, err |-> err]

NoError == "nil"
ErrNoPreviousImage == "failed to reuse layer because no previous image was provided"
ErrBadHash == "failed to get layer hash"
ErrLayerNotFound == "failed to find diffID in config file"
ErrHistoryIndex == "wanted history at index; history has length"
ErrLayerByDiffID == "failed to get layer by diffID"
ErrBaseLayerNotFound == "could not find base layer in image"
ErrConfigWrite == "mutate.ConfigFile failed"
ErrManifestWrite == "MutateManifest failed"
ErrAppend == "mutate.Append failed"
ErrLayerFile == "tarball.LayerFromFile failed"
Panic == "panic"

\* Which collaborator call of an operation fails, if any.
Faults == {"none", "config", "manifest", "append"}


\* ------------------------------------------------------------ session state
VARIABLES
    image,            \* i.Image, the working image
    previousImage,    \* i.previousImage (NilImage when there is none)
    createdAt,        \* i.createdAt, the session build timestamp
    preserveHistory,  \* i.preserveHistory
    preserveDigest,   \* i.preserveDigest
    manifestType,     \* i.preferredMediaTypes.ManifestType()
    overrides,        \* i.features, i.urls and i.annotations
    mutex,            \* i.mutex of layout.Image: TRUE when locked
    pc,               \* where each concurrent SaveAs invocation stands
    before,           \* i.Image as it was when the last operation was called
    last              \* the last operation called, its arguments and its error

vars == <<image, previousImage, createdAt, preserveHistory, preserveDigest,
          manifestType, overrides, mutex, pc, before, last>>

\* The options of the session, set when the image is constructed.
options == <<previousImage, createdAt, preserveHistory, preserveDigest, manifestType>>

\* --------------------------------------------------------------- helpers
\* Position (from 1) of the first element of seq equal to x, 0 when absent.
RECURSIVE IndexFrom(_, _, _)
IndexFrom(seq, x, k) ==
    IF k > Len(seq) THEN 0
    ELSE IF seq[k] = x THEN k
    ELSE IndexFrom(seq, x, k + 1)

FirstIndex(seq, x) == IndexFrom(seq, x, 1)

Repeat(x, n) == [k \in 1..n |-> x]

\* v1.NewHash: parses "algorithm:hex"; String() of the result prints it back.
NewHashFails(diffID) == diffID \notin DiffIDs

\* History Normalizer: a shorter list is padded at the front with empty
\* markers up to nLayers, a longer one keeps its most recent nLayers entries.
NormalizedHistory(history, nLayers) ==
    IF Len(history) < nLayers
    THEN Repeat(emptyHistory, nLayers - Len(history)) \o history
    ELSE SubSeq(history, Len(history) - nLayers + 1, Len(history))

\* mutate.Append with one Addendum{Layer, History}: one more layer, one more
\* diff ID, one more history entry.
mutateAppend(img, layer, history) ==
    [img EXCEPT !.layers = Append(@, layer),
                !.config.diffIDs = Append(@, layer),
                !.config.history = Append(@, history)]

\* ------------------------------------------------------- MutateConfigFile
\* MutateConfigFile leaving the variant out of the manifest's platform.
MutateConfigFileVariantNotMirrored(img, configFile, fault) ==
    IF img.isNil THEN Ret(img, Panic)
    ELSE IF fault = "config" THEN Ret(NilImage, ErrConfigWrite)
    ELSE IF fault = "manifest" THEN Ret(NilImage, ErrManifestWrite)
    ELSE Ret([img EXCEPT
                !.config = configFile,
                !.platform = << Platform(configFile.os,
                                         configFile.architecture,
                                         IF img.platform = NoPlatform THEN ""
                                         ELSE img.platform[1].variant,
                                         configFile.osVersion,
                                         configFile.osFeatures) >>],
             NoError)

\* configFile is img's config file after the caller's withFunc was applied to
\* it.  Each of the two writes assigns its result to i.Image before the error
\* is looked at; reading the config file of a nil image panics.
MutateConfigFile(img, configFile, fault) ==
    IF img.isNil THEN Ret(img, Panic)
    ELSE IF fault = "config" THEN Ret(NilImage, ErrConfigWrite)
    ELSE IF fault = "manifest" THEN Ret(NilImage, ErrManifestWrite)
    ELSE Ret([img EXCEPT
                !.config = configFile,
                !.platform = << Platform(configFile.os,
                                         configFile.architecture,
                                         configFile.variant,
                                         configFile.osVersion,
                                         configFile.osFeatures) >>],
             NoError)

\* ----------------------------------------------------- AddLayerWithHistory
\* EnsureHistory without the normalization.
EnsureHistoryNone(c) == c

\* EnsureHistory normalizing to one entry too many.
EnsureHistoryOneMore(c) ==
    [c EXCEPT !.history = NormalizedHistory(c.history, Len(c.diffIDs) + 1)]

\* EnsureHistory cutting the diff IDs down to the history instead.
EnsureHistoryCuttingDiffIDs(c) ==
    IF Len(c.history) < Len(c.diffIDs)
    THEN [c EXCEPT !.diffIDs = SubSeq(@, 1, Len(c.history))]
    ELSE [c EXCEPT !.history = NormalizedHistory(c.history, Len(c.diffIDs))]

EnsureHistory(c) ==
    [c EXCEPT !.history = NormalizedHistory(c.history, Len(c.diffIDs))]

\* AddLayerWithHistory stamping the entry only when history is preserved.
AddLayerWithHistoryMarkerUnstamped(img, layer, history, fault) ==
    LET ensured == MutateConfigFile(img, EnsureHistory(img.config), fault)
        h == IF ~preserveHistory THEN emptyHistory
             ELSE [history EXCEPT !.created = createdAt]
    IN  IF ensured.err # NoError THEN ensured
        ELSE IF fault = "append" THEN Ret(NilImage, ErrAppend)
        ELSE Ret(mutateAppend(ensured.image, layer, h), NoError)

AddLayerWithHistory(img, layer, history, fault) ==
    LET ensured == MutateConfigFile(img, EnsureHistory(img.config), fault)
        h1 == IF ~preserveHistory THEN emptyHistory ELSE history
        h2 == [h1 EXCEPT !.created = createdAt]
    IN  IF ensured.err # NoError THEN ensured
        ELSE IF fault = "append" THEN Ret(NilImage, ErrAppend)
        ELSE Ret(mutateAppend(ensured.image, layer, h2), NoError)

\* AddLayer / AddLayerWithDiffID: the layer read from the file at path, with
\* emptyHistory as its history.
\* tarball.LayerFromFile fails on an unreadable file, before anything is done.
AddLayer(img, layer, fault) ==
    IF fault = "file" THEN Ret(img, ErrLayerFile)
    ELSE AddLayerWithHistory(img, layer, emptyHistory, fault)


\* ------------------------------------------------------------------ Rebase
\* v1ImageFacade.Layers: the layers of the working image up to and including
\* the first one whose diff ID is topLayerDiffID.
\* Position (from 1) of the last element of seq equal to x, 0 when absent.
RECURSIVE LastIndexFrom(_, _, _)
LastIndexFrom(seq, x, k) ==
    IF k = 0 THEN 0
    ELSE IF seq[k] = x THEN k
    ELSE LastIndexFrom(seq, x, k - 1)

\* v1ImageFacade.Layers cutting at the last layer with the diff ID.
facadeLayersLastMatch(img, topLayerDiffID) ==
    LET all == img.layers
        i == LastIndexFrom(all, topLayerDiffID, Len(all))
    IN  IF i = 0
        THEN [layers |-> <<>>, err |-> ErrBaseLayerNotFound]
        ELSE [layers |-> SubSeq(all, 1, i), err |-> NoError]

\* v1ImageFacade.Layers cutting below the top layer (all[0:i]).
facadeLayersBelowTop(img, topLayerDiffID) ==
    LET all == img.layers
        i == FirstIndex(all, topLayerDiffID)
    IN  IF i = 0
        THEN [layers |-> <<>>, err |-> ErrBaseLayerNotFound]
        ELSE [layers |-> SubSeq(all, 1, i - 1), err |-> NoError]

facadeLayers(img, topLayerDiffID) ==
    LET all == img.layers
        i == FirstIndex(all, topLayerDiffID)
    IN  IF i = 0
        THEN [layers |-> <<>>, err |-> ErrBaseLayerNotFound]
        ELSE [layers |-> SubSeq(all, 1, i), err |-> NoError]

\* mutate.Rebase(orig, oldBase, newBase): newBase's layers, then the layers
\* of orig above oldBase's layers; the history entries follow their layers.
\* A failure (here: oldBase.Layers() failing) returns a nil image.
mutateRebase(orig, oldBase, newBase) ==
    IF oldBase.err # NoError THEN Ret(NilImage, oldBase.err)
    ELSE LET n == Len(oldBase.layers)
             top(seq) == SubSeq(seq, n + 1, Len(seq))
         IN  Ret([orig EXCEPT
                    !.layers = newBase.layers \o top(orig.layers),
                    !.config.diffIDs = newBase.config.diffIDs \o top(orig.config.diffIDs),
                    !.config.history = newBase.config.history \o top(orig.config.history)],
                 NoError)

\* Rebase taking the variant and the OS features from the new base as well.
RebaseWholePlatform(img, baseTopLayerDiffID, newBase, fault) ==
    IF img.isNil THEN Ret(img, Panic)
    ELSE LET rebased == mutateRebase(img, facadeLayers(img, baseTopLayerDiffID), newBase)
             newBaseConfigFile == newBase.config
             withNewBase(c) == [c EXCEPT !.architecture = newBaseConfigFile.architecture,
                                         !.os = newBaseConfigFile.os,
                                         !.osVersion = newBaseConfigFile.osVersion,
                                         !.variant = newBaseConfigFile.variant,
                                         !.osFeatures = newBaseConfigFile.osFeatures]
         IN  IF rebased.err # NoError THEN rebased
             ELSE MutateConfigFile(rebased.image, withNewBase(rebased.image.config), fault)

Rebase(img, baseTopLayerDiffID, newBase, fault) ==
    IF img.isNil THEN Ret(img, Panic)
    ELSE LET rebased == mutateRebase(img, facadeLayers(img, baseTopLayerDiffID), newBase)
             newBaseConfigFile == newBase.config
             withNewBase(c) == [c EXCEPT !.architecture = newBaseConfigFile.architecture,
                                         !.os = newBaseConfigFile.os,
                                         !.osVersion = newBaseConfigFile.osVersion]
         IN  IF rebased.err # NoError THEN rebased
             ELSE MutateConfigFile(rebased.image, withNewBase(rebased.image.config), fault)

\* -------------------------------------------------------------- ReuseLayer
\* getLayerIndex answering the first position when the diff ID is absent.
getLayerIndexNoError(forDiffID, fromImage) ==
    IF NewHashFails(forDiffID) THEN [idx |-> 0, err |-> ErrBadHash]
    ELSE LET idx == FirstIndex(fromImage.config.diffIDs, forDiffID)
         IN  [idx |-> IF idx = 0 THEN 1 ELSE idx, err |-> NoError]

\* getLayerIndex: position (from 1) of forDiffID in fromImage's diff IDs.
getLayerIndex(forDiffID, fromImage) ==
    IF NewHashFails(forDiffID) THEN [idx |-> 0, err |-> ErrBadHash]
    ELSE LET idx == FirstIndex(fromImage.config.diffIDs, forDiffID)
         IN  IF idx = 0 THEN [idx |-> 0, err |-> ErrLayerNotFound]
             ELSE [idx |-> idx, err |-> NoError]

\* getHistory: the bound is checked against the normalized history, the entry
\* is read from the config file's own history; reading past its end panics.
getHistory(forIndex, fromImage) ==
    LET configFile == fromImage.config
        history == NormalizedHistory(configFile.history, Len(configFile.diffIDs))
    IN  IF Len(history) < forIndex
        THEN [history |-> emptyHistory, err |-> ErrHistoryIndex]
        ELSE IF forIndex > Len(configFile.history)
        THEN [history |-> emptyHistory, err |-> Panic]
        ELSE [history |-> configFile.history[forIndex], err |-> NoError]

\* ReuseLayerWithHistory appending the caller's entry as it was given.
ReuseLayerWithHistoryAsGiven(img, diffID, history, fault) ==
    IF NewHashFails(diffID) THEN Ret(img, ErrBadHash)
    ELSE IF previousImage.isNil THEN Ret(img, Panic)
    ELSE IF FirstIndex(previousImage.layers, diffID) = 0 THEN Ret(img, ErrLayerByDiffID)
    ELSE IF img.isNil THEN Ret(img, Panic)
    ELSE IF fault = "append" THEN Ret(NilImage, ErrAppend)
    ELSE Ret(mutateAppend(img, diffID, history), NoError)

\* previousImage.LayerByDiffID on a nil previousImage is a nil dereference.
ReuseLayerWithHistory(img, diffID, history, fault) ==
    IF NewHashFails(diffID) THEN Ret(img, ErrBadHash)
    ELSE IF previousImage.isNil THEN Ret(img, Panic)
    ELSE IF FirstIndex(previousImage.layers, diffID) = 0 THEN Ret(img, ErrLayerByDiffID)
    ELSE LET h == IF preserveHistory
                  THEN [history EXCEPT !.created = createdAt]
                  ELSE emptyHistory
         IN  IF img.isNil THEN Ret(img, Panic)
             ELSE IF fault = "append" THEN Ret(NilImage, ErrAppend)
             ELSE Ret(mutateAppend(img, diffID, h), NoError)

\* ReuseLayer without the check for a previous image.
ReuseLayerUnchecked(img, diffID, fault) ==
    LET index == getLayerIndex(diffID, previousImage)
        previousHistory == getHistory(index.idx, previousImage)
    IN  IF index.err # NoError THEN Ret(img, index.err)
        ELSE IF previousHistory.err # NoError THEN Ret(img, previousHistory.err)
        ELSE ReuseLayerWithHistory(img, diffID, previousHistory.history, fault)

ReuseLayer(img, diffID, fault) ==
    IF previousImage.isNil THEN Ret(img, ErrNoPreviousImage)
    ELSE LET index == getLayerIndex(diffID, previousImage)
             previousHistory == getHistory(index.idx, previousImage)
         IN  IF index.err # NoError THEN Ret(img, index.err)
             ELSE IF previousHistory.err # NoError THEN Ret(img, previousHistory.err)
             ELSE ReuseLayerWithHistory(img, diffID, previousHistory.history, fault)


\* ------------------------------------------------------------ initial state
LinuxConfig(history, diffIDs) ==
    ConfigFile("linux", "amd64", "", "", <<>>, history, diffIDs)

ArmConfig(history, diffIDs) ==
    ConfigFile("linux", "arm", "v7", "", <<"neon">>, history, diffIDs)

WindowsConfig(history, diffIDs) ==
    ConfigFile("windows", "arm64", "v8", "10.0.17763", <<"win32k">>, history, diffIDs)

RunMake == History(OldTime, "RUN make", FALSE)
EnvX == History(ZeroTime, "ENV x", TRUE)

\* Layers with the history recorded for them: as long as the layers, shorter
\* (history missing), or longer (entries of empty layers).
Scratch == Image(<<>>, LinuxConfig(<<>>, <<>>), NoPlatform)
NoHistory == Image(<<"sha256:a">>, LinuxConfig(<<>>, <<"sha256:a">>), NoPlatform)
LongHistory == Image(<<"sha256:a">>, ArmConfig(<<EnvX, RunMake>>, <<"sha256:a">>), NoPlatform)
ShortHistory ==
    Image(<<"sha256:a", "sha256:b">>,
          LinuxConfig(<<RunMake>>, <<"sha256:a", "sha256:b">>), NoPlatform)
WindowsBase == Image(<<"sha256:b">>, WindowsConfig(<<RunMake>>, <<"sha256:b">>), NoPlatform)

BaseImages == {Scratch, NoHistory, LongHistory, ShortHistory}
PreviousImages == {NilImage, ShortHistory, LongHistory}
NewBases == {WindowsBase, NoHistory}

Call(op, diffID, history, newBase, fault) ==
    [op |-> op, diffID |-> diffID, history |-> history, newBase |-> newBase,
     fault |-> fault, err |-> NoError]

\* types.OCIManifestSchema1 and types.DockerManifestSchema2.
OCIManifest == "application/vnd.oci.image.manifest.v1+json"
DockerManifest == "application/vnd.docker.distribution.manifest.v2+json"

\* No override is set, the mutex is unlocked and no SaveAs is running.
NoOverrides == [features |-> <<>>, urls |-> <<>>, annotations |-> NoMap]

NoSaveRunning == <<>>

Init ==
    /\ image \in BaseImages
    /\ previousImage \in PreviousImages
    /\ createdAt \in {NormalizedDateTime, BuildTime}
    /\ preserveHistory \in BOOLEAN
    /\ preserveDigest = FALSE
    /\ manifestType = OCIManifest
    /\ overrides = NoOverrides
    /\ mutex = FALSE
    /\ pc = NoSaveRunning
    /\ before = image
    /\ last = Call("NewImage", BadDiffID, emptyHistory, NilImage, "none")

\* ------------------------------------------------------------------ actions
\* The method returned r: i.Image is what it left, the caller sees r.err.
\* Nothing is called any more once the program has panicked.
Returned(call, r) ==
    /\ image' = r.image
    /\ before' = image
    /\ last' = [call EXCEPT !.err = r.err]
    /\ UNCHANGED <<options, overrides, mutex, pc>>

Alive == last.err # Panic

DoAddLayer ==
    /\ Alive
    /\ Len(image.layers) < MaxLayers
    /\ \E layer \in DiffIDs, fault \in Faults \cup {"file"} :
          Returned(Call("AddLayer", layer, emptyHistory, NilImage, fault),
                   AddLayer(image, layer, fault))

DoAddLayerWithHistory ==
    /\ Alive
    /\ Len(image.layers) < MaxLayers
    /\ \E layer \in DiffIDs, history \in HistoryInputs, fault \in Faults :
          Returned(Call("AddLayerWithHistory", layer, history, NilImage, fault),
                   AddLayerWithHistory(image, layer, history, fault))

DoReuseLayer ==
    /\ Alive
    /\ Len(image.layers) < MaxLayers
    /\ \E diffID \in DiffIDStrings, fault \in {"none", "append"} :
          Returned(Call("ReuseLayer", diffID, emptyHistory, NilImage, fault),
                   ReuseLayer(image, diffID, fault))

DoReuseLayerWithHistory ==
    /\ Alive
    /\ Len(image.layers) < MaxLayers
    /\ \E diffID \in DiffIDStrings, history \in HistoryInputs, fault \in {"none", "append"} :
          Returned(Call("ReuseLayerWithHistory", diffID, history, NilImage, fault),
                   ReuseLayerWithHistory(image, diffID, history, fault))

DoRebase ==
    /\ Alive
    /\ \E top \in DiffIDStrings, newBase \in NewBases, fault \in {"none", "config", "manifest"} :
          /\ Len(newBase.layers) + Len(image.layers) <= MaxLayers + 1
          /\ Returned(Call("Rebase", top, emptyHistory, newBase, fault),
                      Rebase(image, top, newBase, fault))

Next ==
    \/ DoAddLayer
    \/ DoAddLayerWithHistory
    \/ DoReuseLayer
    \/ DoReuseLayerWithHistory
    \/ DoRebase

Spec == Init /\ [][Next]_vars


\* ------------------------------------------------------------------ SetEnv
\* strings.Split(s, "="): the pieces of s between its "=" characters.
RECURSIVE Split(_)
Split(s) ==
    LET i == FirstIndex(s, "=")
    IN  IF i = 0 THEN <<s>>
        ELSE <<SubSeq(s, 1, i - 1)>> \o Split(SubSeq(s, i + 1, Len(s)))

\* strings.ToUpper on the letters the keys are written with.
UpperChar(c) ==
    CASE c = "k" -> "K"
      [] c = "j" -> "J"
      [] OTHER -> c

ToUpper(s) == [n \in 1..Len(s) |-> UpperChar(s[n])]

\* fmt.Sprintf("%s=%s", key, val)
EnvEntry(key, val) == key \o <<"=">> \o val

\* Position of the first entry of env whose key SetEnv takes for key.
RECURSIVE EnvIndexFrom(_, _, _, _)
EnvIndexFrom(env, key, ignoreCase, idx) ==
    IF idx > Len(env) THEN 0
    ELSE LET parts == Split(env[idx])
             foundKey == IF ignoreCase THEN ToUpper(parts[1]) ELSE parts[1]
             searchKey == IF ignoreCase THEN ToUpper(key) ELSE key
         IN  IF foundKey = searchKey THEN idx
             ELSE EnvIndexFrom(env, key, ignoreCase, idx + 1)

\* The closure of SetEnv appending the entry whether or not the key is there.
SetEnvConfigAppendOnly(c, key, val) ==
    [c EXCEPT !.env = Append(@, EnvEntry(key, val))]

\* The closure of SetEnv comparing keys without regard to case on every OS.
SetEnvConfigIgnoringCase(c, key, val) ==
    LET idx == EnvIndexFrom(c.env, key, TRUE, 1)
    IN  IF idx # 0
        THEN [c EXCEPT !.env[idx] = EnvEntry(key, val)]
        ELSE [c EXCEPT !.env = Append(@, EnvEntry(key, val))]

\* The closure of SetEnv: the config file with the entry replaced or appended.
SetEnvConfig(c, key, val) ==
    LET ignoreCase == c.os = "windows"
        idx == EnvIndexFrom(c.env, key, ignoreCase, 1)
    IN  IF idx # 0
        THEN [c EXCEPT !.env[idx] = EnvEntry(key, val)]
        ELSE [c EXCEPT !.env = Append(@, EnvEntry(key, val))]

SetEnv(img, key, val, fault) ==
    MutateConfigFile(img, SetEnvConfig(img.config, key, val), fault)

\* Keys and values passed to SetEnv; one value has a "=" in it.
EnvKeys == { <<"K">>, <<"k">>, <<"J">> }
EnvValues == { <<"1">>, <<"x", "=", "y">> }

WithEnv(img, env) == [img EXCEPT !.config.env = env]

\* Images whose environment has no key twice: on Linux "k" and "K" are two
\* keys, on Windows they are one.
EnvImages ==
    { Scratch,
      WithEnv(Scratch, << EnvEntry(<<"k">>, <<"0">>), EnvEntry(<<"K">>, <<"0">>) >>),
      WindowsBase,
      WithEnv(WindowsBase, << EnvEntry(<<"J">>, <<"0">>), EnvEntry(<<"k">>, <<"0">>) >>) }

\* assigned: the keys set by the calls so far, each with the value last set
\* for it (keys told apart as the image's OS tells them apart).
EnvCall(op, key, val, fault, assigned) ==
    [op |-> op, key |-> key, val |-> val, fault |-> fault, err |-> NoError,
     assigned |-> assigned]

SameEnvKey(os, k1, k2) ==
    IF os = "windows" THEN ToUpper(k1) = ToUpper(k2) ELSE k1 = k2

InitEnv ==
    /\ image \in EnvImages
    /\ previousImage = NilImage
    /\ createdAt = NormalizedDateTime
    /\ preserveHistory = FALSE
    /\ preserveDigest = FALSE
    /\ manifestType = OCIManifest
    /\ overrides = NoOverrides
    /\ mutex = FALSE
    /\ pc = NoSaveRunning
    /\ before = image
    /\ last = EnvCall("NewImage", <<>>, <<>>, "none", {})

DoSetEnv ==
    /\ Alive
    /\ \E key \in EnvKeys, val \in EnvValues, fault \in {"none", "config", "manifest"} :
          LET r == SetEnv(image, key, val, fault)
              assigned ==
                  IF r.err # NoError THEN last.assigned
                  ELSE { a \in last.assigned : ~SameEnvKey(image.config.os, a[1], key) }
                       \cup { <<key, val>> }
          IN  Returned(EnvCall("SetEnv", key, val, fault, assigned), r)

NextEnv == DoSetEnv

SpecEnv == InitEnv /\ [][NextEnv]_vars

\* ------------------------------------------- Features, URLs, Annotations
\* What an accessor returns: the value, the error, and the manifest format
\* the error names.
Got(value) == [value |-> value, err |-> NoError, format |-> ""]

ErrUndefined == "is undefined for ImageIndex"

Undefined(empty) == [value |-> empty, err |-> ErrUndefined, format |-> manifestType]

\* Features reading the manifest before the override.
FeaturesManifestFirst(img) ==
    IF img.platform # NoPlatform /\ Len(img.features) >= 1 THEN Got(img.features)
    ELSE IF Len(overrides.features) # 0 THEN Got(overrides.features)
    ELSE Undefined(<<>>)

Features(img) ==
    IF Len(overrides.features) # 0 THEN Got(overrides.features)
    ELSE IF img.platform = NoPlatform \/ Len(img.features) < 1 THEN Undefined(<<>>)
    ELSE Got(img.features)

URLs(img) ==
    IF Len(overrides.urls) # 0 THEN Got(overrides.urls)
    ELSE IF Len(img.urls) < 1 THEN Undefined(<<>>)
    ELSE Got(img.urls)

Annotations(img) ==
    IF DOMAIN overrides.annotations # {} THEN Got(overrides.annotations)
    ELSE IF DOMAIN img.annotations = {} THEN Undefined(NoMap)
    ELSE Got(img.annotations)

\* ---------------------------------------------------- SetCreatedAtAndHistory
\* SetCreatedAtAndHistory clearing the entries whatever preserveHistory is.
SetCreatedAtAndHistoryZeroing(img, fault) ==
    LET created == MutateConfigFile(img, [img.config EXCEPT !.created = createdAt], fault)
        c == created.image.config
        zeroed == [j \in 1..Len(c.history) |-> History(createdAt, "", FALSE)]
    IN  IF created.err # NoError THEN created
        ELSE MutateConfigFile(created.image, [c EXCEPT !.history = zeroed], "none")

\* The creation time is set first; then every history entry is stamped, or
\* replaced by an entry that has the creation time only.
SetCreatedAtAndHistory(img, fault) ==
    LET created == MutateConfigFile(img, [img.config EXCEPT !.created = createdAt], fault)
        c == created.image.config
        stamped == [j \in 1..Len(c.history) |-> [c.history[j] EXCEPT !.created = createdAt]]
        zeroed == [j \in 1..Len(c.history) |-> History(createdAt, "", FALSE)]
    IN  IF created.err # NoError THEN created
        ELSE MutateConfigFile(created.image,
                              [c EXCEPT !.history = IF preserveHistory THEN stamped ELSE zeroed],
                              "none")

\* ------------------------------------------------------------------ SaveAs
\* i.Name() of the layout image (its repoPath), and the places SaveAs is
\* asked to write to; Save() writes to i.Name() first.
RepoPath == "a"
Destinations == {"a", "b", "c"}

\* How writing to a destination goes: initEmptyIndexAt fails ("init"),
\* AppendImage fails ("append"), or both succeed ("ok").
Outcomes == {"ok", "init", "append"}

RefNameKey == "org.opencontainers.image.ref.name"

ErrInitIndex == "initEmptyIndexAt failed"
ErrAppendImage == "AppendImage failed"
ErrSave == "failed to write image to the following tags"

\* GetAnnotateRefName: the manifest's ref-name annotation, "" without one.
GetAnnotateRefName(img) ==
    IF RefNameKey \in DOMAIN img.annotations THEN img.annotations[RefNameKey] ELSE ""

\* MutateManifestFn: the manifest takes the platform fields, and the
\* features and annotations when there are any.
mutateManifestFn(img, os, arch, variant, osVersion, features, osFeatures, annotations) ==
    [img EXCEPT
        !.platform = << Platform(os, arch, variant, osVersion, osFeatures) >>,
        !.features = IF Len(features) # 0 THEN features ELSE @,
        !.annotations = IF DOMAIN annotations # {} THEN annotations ELSE @]

\* The closure SaveAs passes to MutateManifest; the accessors' errors are
\* dropped.  Alone, the invocation finds the mutex free and frees it again.
SaveManifest(img) ==
    mutateManifestFn(img, img.config.os, img.config.architecture,
                     img.config.variant, img.config.osVersion,
                     Features(img).value, img.config.osFeatures,
                     Annotations(img).value)

SaveResult(img, err, attempted, written, diagnostics) ==
    [image |-> img, err |-> err, attempted |-> attempted, written |-> written,
     diagnostics |-> diagnostics]

SaveDiagnostic(imageName, cause) == [imageName |-> imageName, cause |-> cause]

\* The loop of SaveAs over pathsToSave, from the k-th path on: a failure of
\* initEmptyIndexAt returns at once, a failure of AppendImage is recorded
\* under i.Name() and the loop goes on.
RECURSIVE SaveLoop(_, _, _, _, _, _, _)
SaveLoop(img, pathsToSave, outcome, k, attempted, written, diagnostics) ==
    IF k > Len(pathsToSave)
    THEN SaveResult(img, IF Len(diagnostics) > 0 THEN ErrSave ELSE NoError,
                    attempted, written, diagnostics)
    ELSE LET path == pathsToSave[k]
         IN  IF outcome[path] = "init"
             THEN SaveResult(img, ErrInitIndex, Append(attempted, path), written, diagnostics)
             ELSE IF outcome[path] = "append"
             THEN SaveLoop(img, pathsToSave, outcome, k + 1, Append(attempted, path),
                           written, Append(diagnostics, SaveDiagnostic(RepoPath, ErrAppendImage)))
             ELSE SaveLoop(img, pathsToSave, outcome, k + 1, Append(attempted, path),
                           Append(written, path), diagnostics)

\* SaveAs stamping the image and its manifest whatever preserveDigest is.
SaveAsAlwaysStamping(img, pathsToSave, outcome, fault) ==
    LET stamped == SetCreatedAtAndHistory(img, fault)
        mutated == IF fault = "save" THEN Ret(NilImage, ErrManifestWrite)
                   ELSE Ret(SaveManifest(stamped.image), NoError)
    IN  IF img.isNil THEN SaveResult(img, Panic, <<>>, <<>>, <<>>)
        ELSE IF stamped.err # NoError
        THEN SaveResult(stamped.image, stamped.err, <<>>, <<>>, <<>>)
        ELSE IF mutated.err # NoError
        THEN SaveResult(mutated.image, mutated.err, <<>>, <<>>, <<>>)
        ELSE SaveLoop(mutated.image, pathsToSave, outcome, 1, <<>>, <<>>, <<>>)

\* SaveAs(name, additionalNames...): pathsToSave is name followed by
\* additionalNames.  fault "config" or "manifest" fails the stamping, fault
\* "save" fails the MutateManifest of SaveAs.
SaveAs(img, pathsToSave, outcome, fault) ==
    LET stamped == IF preserveDigest THEN Ret(img, NoError)
                   ELSE SetCreatedAtAndHistory(img, fault)
        mutated == IF preserveDigest THEN stamped
                   ELSE IF fault = "save" THEN Ret(NilImage, ErrManifestWrite)
                   ELSE Ret(SaveManifest(stamped.image), NoError)
    IN  IF img.isNil THEN SaveResult(img, Panic, <<>>, <<>>, <<>>)
        ELSE IF stamped.err # NoError
        THEN SaveResult(stamped.image, stamped.err, <<>>, <<>>, <<>>)
        ELSE IF mutated.err # NoError
        THEN SaveResult(mutated.image, mutated.err, <<>>, <<>>, <<>>)
        ELSE SaveLoop(mutated.image, pathsToSave, outcome, 1, <<>>, <<>>, <<>>)

\* The lists of one to three different destinations.
PathLists ==
    { <<x>> : x \in Destinations }
    \cup { p \in Destinations \X Destinations : p[1] # p[2] }
    \cup { p \in Destinations \X Destinations \X Destinations :
              p[1] # p[2] /\ p[1] # p[3] /\ p[2] # p[3] }

Range(seq) == { seq[n] : n \in 1..Len(seq) }

\* How each destination goes; a destination not written to is left "ok".
OutcomesFor(pathsToSave) ==
    { o \in [Destinations -> Outcomes] :
        \A d \in Destinations \ Range(pathsToSave) : o[d] = "ok" }

RefNamed == [k \in {RefNameKey} |-> "latest"]

\* Images to save: with history entries of their own, one with a ref name.
SaveImages ==
    { LongHistory, ShortHistory, [WindowsBase EXCEPT !.annotations = RefNamed] }

SaveCall(pathsToSave, outcome, fault, r) ==
    [op |-> "SaveAs", paths |-> pathsToSave, outcome |-> outcome, fault |-> fault,
     err |-> r.err, attempted |-> r.attempted, written |-> r.written,
     diagnostics |-> r.diagnostics]

InitSave ==
    /\ image \in SaveImages
    /\ previousImage = NilImage
    /\ createdAt \in {NormalizedDateTime, BuildTime}
    /\ preserveHistory \in BOOLEAN
    /\ preserveDigest \in BOOLEAN
    /\ manifestType = OCIManifest
    /\ overrides = NoOverrides
    /\ mutex = FALSE
    /\ pc = NoSaveRunning
    /\ before = image
    /\ last = [op |-> "NewImage", err |-> NoError]

\* A session ends with its save.
DoSaveAs ==
    /\ Alive
    /\ last.op # "SaveAs"
    /\ \E pathsToSave \in PathLists, fault \in {"none", "config", "manifest", "save"} :
          \E outcome \in OutcomesFor(pathsToSave) :
              LET r == SaveAs(image, pathsToSave, outcome, fault)
              IN  Returned(SaveCall(pathsToSave, outcome, fault, r), r)

NextSave == DoSaveAs

SpecSave == InitSave /\ [][NextSave]_vars

\* ------------------------------------------------------------ the setters
SetOS(img, osVal, fault) ==
    MutateConfigFile(img, [img.config EXCEPT !.os = osVal], fault)

SetArchitecture(img, architecture, fault) ==
    MutateConfigFile(img, [img.config EXCEPT !.architecture = architecture], fault)

SetVariant(img, variant, fault) ==
    MutateConfigFile(img, [img.config EXCEPT !.variant = variant], fault)

SetOSVersion(img, osVersion, fault) ==
    MutateConfigFile(img, [img.config EXCEPT !.osVersion = osVersion], fault)

SetOSFeatures(img, osFeatures, fault) ==
    MutateConfigFile(img, [img.config EXCEPT !.osFeatures = osFeatures], fault)

\* A base image whose manifest has a platform that its config has outgrown.
StalePlatform ==
    [NoHistory EXCEPT !.platform = << Platform("linux", "386", "", "", <<>>) >>]

PlatformImages == {Scratch, LongHistory, StalePlatform}

SetterCall(op, value, fault) ==
    [op |-> op, value |-> value, fault |-> fault, err |-> NoError]

SetterFaults == {"none", "config", "manifest"}

InitPlatform ==
    /\ image \in PlatformImages
    /\ previousImage = NilImage
    /\ createdAt = NormalizedDateTime
    /\ preserveHistory = FALSE
    /\ preserveDigest = FALSE
    /\ manifestType = OCIManifest
    /\ overrides = NoOverrides
    /\ mutex = FALSE
    /\ pc = NoSaveRunning
    /\ before = image
    /\ last = SetterCall("NewImage", "", "none")

DoSetOS ==
    /\ Alive
    /\ \E osVal \in {"linux", "windows"}, fault \in SetterFaults :
          Returned(SetterCall("SetOS", osVal, fault), SetOS(image, osVal, fault))

DoSetArchitecture ==
    /\ Alive
    /\ \E architecture \in {"amd64", "arm64"}, fault \in SetterFaults :
          Returned(SetterCall("SetArchitecture", architecture, fault),
                   SetArchitecture(image, architecture, fault))

DoSetVariant ==
    /\ Alive
    /\ \E variant \in {"", "v8"}, fault \in SetterFaults :
          Returned(SetterCall("SetVariant", variant, fault),
                   SetVariant(image, variant, fault))

DoSetOSVersion ==
    /\ Alive
    /\ \E osVersion \in {"", "10.0.17763"}, fault \in SetterFaults :
          Returned(SetterCall("SetOSVersion", osVersion, fault),
                   SetOSVersion(image, osVersion, fault))

DoSetOSFeatures ==
    /\ Alive
    /\ \E osFeatures \in {<<>>, <<"win32k">>}, fault \in SetterFaults :
          Returned(SetterCall("SetOSFeatures", osFeatures, fault),
                   SetOSFeatures(image, osFeatures, fault))

DoSetEnvOnce ==
    /\ Alive
    /\ \E fault \in SetterFaults :
          Returned(SetterCall("SetEnv", <<"K">>, fault),
                   SetEnv(image, <<"K">>, <<"1">>, fault))

DoRebaseOnto ==
    /\ Alive
    /\ \E top \in DiffIDs, newBase \in NewBases, fault \in SetterFaults :
          Returned(SetterCall("Rebase", top, fault),
                   Rebase(image, top, newBase, fault))

NextPlatform ==
    \/ DoSetOS
    \/ DoSetArchitecture
    \/ DoSetVariant
    \/ DoSetOSVersion
    \/ DoSetOSFeatures
    \/ DoSetEnvOnce
    \/ DoRebaseOnto

SpecPlatform == InitPlatform /\ [][NextPlatform]_vars

\* ------------------------------------------------- the session's overrides
MaxOverride == 2

SetFeatures(o, features) == [o EXCEPT !.features = @ \o features]

SetURLs(o, urls) == [o EXCEPT !.urls = @ \o urls]

SetAnnotations(o, annotations) ==
    [o EXCEPT !.annotations =
        [k \in DOMAIN @ \cup DOMAIN annotations |->
            IF k \in DOMAIN annotations THEN annotations[k] ELSE @[k]]]

\* An image whose manifest has features, urls and annotations, one whose
\* manifest has a platform without features, and one without any of them.
ManifestValues ==
    [WindowsBase EXCEPT
        !.platform = << Platform("windows", "arm64", "v8", "10.0.17763", <<"win32k">>) >>,
        !.features = <<"sse4">>,
        !.urls = <<"https://mirror/layer">>,
        !.annotations = RefNamed]

OverrideImages == {LongHistory, StalePlatform, ManifestValues}

FeatureLists == {<<>>, <<"f1">>, <<"f2">>}
URLLists == {<<>>, <<"https://u1">>}
AnnotationMaps ==
    {NoMap, [k \in {"k"} |-> "1"], [k \in {"k"} |-> "2"], [k \in {"j"} |-> "1"]}

InitOverrides ==
    /\ image \in OverrideImages
    /\ previousImage = NilImage
    /\ createdAt = NormalizedDateTime
    /\ preserveHistory = FALSE
    /\ preserveDigest = FALSE
    /\ manifestType \in {OCIManifest, DockerManifest}
    /\ overrides = NoOverrides
    /\ mutex = FALSE
    /\ pc = NoSaveRunning
    /\ before = NoOverrides
    /\ last = [op |-> "NewImage", result |-> Got(<<>>)]

\* before holds what the setters were given so far.
OverrideSet(op, o) ==
    /\ overrides' = o
    /\ before' = o
    /\ last' = [op |-> op, result |-> Got(<<>>)]
    /\ UNCHANGED <<image, options, mutex, pc>>

OverrideRead(op, result) ==
    /\ last' = [op |-> op, result |-> result]
    /\ UNCHANGED <<image, options, overrides, mutex, pc, before>>

DoSetFeatures ==
    \E features \in FeatureLists :
        /\ Len(overrides.features) + Len(features) <= MaxOverride
        /\ OverrideSet("SetFeatures", SetFeatures(overrides, features))

DoSetURLs ==
    \E urls \in URLLists :
        /\ Len(overrides.urls) + Len(urls) <= MaxOverride
        /\ OverrideSet("SetURLs", SetURLs(overrides, urls))

DoSetAnnotations ==
    \E annotations \in AnnotationMaps :
        OverrideSet("SetAnnotations", SetAnnotations(overrides, annotations))

DoFeatures == OverrideRead("Features", Features(image))

DoURLs == OverrideRead("URLs", URLs(image))

DoAnnotations == OverrideRead("Annotations", Annotations(image))

NextOverrides ==
    \/ DoSetFeatures
    \/ DoSetURLs
    \/ DoSetAnnotations
    \/ DoFeatures
    \/ DoURLs
    \/ DoAnnotations

SpecOverrides == InitOverrides /\ [][NextOverrides]_vars

\* ----------------------------------------------- SaveAs, run concurrently
\* Two goroutines call SaveAs on one image.  pc[s] = 0 before the call; at
\* pc[s] = n in 1..9 the invocation is about to run ClosureSteps[n]; 10 is
\* past the closure and 11 is returned.
Savers == {1, 2}

ClosureSteps ==
    <<"TryLock", "OS", "Architecture", "Variant", "OSVersion", "Features",
      "OSFeatures", "Annotations", "Unlock">>

NotStarted == 0
PastClosure == Len(ClosureSteps) + 1
SaveReturned == Len(ClosureSteps) + 2

NoHolder == 0

\* holder is the invocation whose TryLock took the mutex; released is the
\* last Unlock: who called it and who held the mutex then.
LockCall(holder, released, err) ==
    [op |-> "SaveAs", holder |-> holder, released |-> released, err |-> err]

InitLock ==
    /\ image \in SaveImages
    /\ previousImage = NilImage
    /\ createdAt = BuildTime
    /\ preserveHistory \in BOOLEAN
    /\ preserveDigest = FALSE
    /\ manifestType = OCIManifest
    /\ overrides = NoOverrides
    /\ mutex = FALSE
    /\ pc = [s \in Savers |-> NotStarted]
    /\ before = image
    /\ last = LockCall(NoHolder, <<NoHolder, NoHolder>>, NoError)

\* Lines 16-25: the image is stamped and the ref name read.
StartSaveAs(s) ==
    /\ Alive
    /\ pc[s] = NotStarted
    /\ image' = SetCreatedAtAndHistory(image, "none").image
    /\ pc' = [pc EXCEPT ![s] = 1]
    /\ UNCHANGED <<options, overrides, mutex, before, last>>

\* i.mutex.TryLock(): the mutex is taken when it is free; what TryLock
\* returns is not looked at, and the closure goes on either way.
TryLock(s) ==
    /\ Alive
    /\ pc[s] >= 1 /\ pc[s] <= Len(ClosureSteps)
    /\ ClosureSteps[pc[s]] = "TryLock"
    /\ mutex' = TRUE
    /\ last' = IF mutex THEN last ELSE [last EXCEPT !.holder = s]
    /\ pc' = [pc EXCEPT ![s] = @ + 1]
    /\ UNCHANGED <<image, options, overrides, before>>

\* One of the seven reads of the closure.
ReadField(s) ==
    /\ Alive
    /\ pc[s] >= 1 /\ pc[s] <= Len(ClosureSteps)
    /\ ClosureSteps[pc[s]] \notin {"TryLock", "Unlock"}
    /\ pc' = [pc EXCEPT ![s] = @ + 1]
    /\ UNCHANGED <<image, options, overrides, mutex, before, last>>

\* The deferred i.mutex.Unlock(), and MutateManifest's result assigned to
\* i.Image.  Unlocking a mutex that is not locked is a fatal error of the
\* Go runtime.
Unlock(s) ==
    /\ Alive
    /\ pc[s] >= 1 /\ pc[s] <= Len(ClosureSteps)
    /\ ClosureSteps[pc[s]] = "Unlock"
    /\ pc' = [pc EXCEPT ![s] = @ + 1]
    /\ IF mutex
       THEN /\ mutex' = FALSE
            /\ image' = SaveManifest(image)
            /\ last' = LockCall(NoHolder, <<s, last.holder>>, NoError)
       ELSE /\ last' = LockCall(NoHolder, <<s, NoHolder>>, Panic)
            /\ UNCHANGED <<image, mutex>>
    /\ UNCHANGED <<options, overrides, before>>

\* Lines 52-72: the destinations are written and SaveAs returns.
FinishSaveAs(s) ==
    /\ Alive
    /\ pc[s] = PastClosure
    /\ pc' = [pc EXCEPT ![s] = SaveReturned]
    /\ UNCHANGED <<image, options, overrides, mutex, before, last>>

NextLock ==
    \E s \in Savers :
        \/ StartSaveAs(s)
        \/ TryLock(s)
        \/ ReadField(s)
        \/ Unlock(s)
        \/ FinishSaveAs(s)

SpecLock == InitLock /\ [][NextLock]_vars

\* --------------------------------------------------- layout: imageFromIndex
MaxManifests == 3

\* A descriptor of the index; platform is a pointer, absent in <<>>.
Descriptor(digest, platform) == [digest |-> digest, platform |-> platform]

IndexPlatform(os, architecture) == [os |-> os, architecture |-> architecture]

EmptyPlatform == IndexPlatform("", "")

Descriptors ==
    { Descriptor("sha256:m1", << IndexPlatform("linux", "amd64") >>),
      Descriptor("sha256:m2", << IndexPlatform("linux", "arm") >>),
      Descriptor("sha256:m3", << IndexPlatform("windows", "arm64") >>),
      Descriptor("sha256:m4", <<>>) }

ManifestLists ==
    UNION { [1..n -> Descriptors] : n \in 0..MaxManifests }

RequestedPlatforms ==
    { EmptyPlatform, IndexPlatform("linux", "arm"), IndexPlatform("windows", "arm64") }

\* index.Image(digest)
IndexImage(digest) ==
    CASE digest = "sha256:m1" -> NoHistory
      [] digest = "sha256:m2" -> LongHistory
      [] digest = "sha256:m3" -> WindowsBase
      [] OTHER -> Scratch

ErrNoManifest == "failed to find manifest at index"
ErrNoMatchingManifest == "failed to find manifest matching platform"

processDefaultPlatformOption(requestedPlatform) ==
    IF requestedPlatform # EmptyPlatform THEN requestedPlatform
    ELSE IndexPlatform("linux", "amd64")

\* The loop over the manifests from the k-th on: reading the platform of a
\* descriptor that has none is a nil dereference; whether or not a manifest
\* matched, the statement after the loop returns the error.
RECURSIVE FindManifest(_, _, _)
FindManifest(manifests, platform, k) ==
    IF k > Len(manifests) THEN Ret(NilImage, ErrNoMatchingManifest)
    ELSE IF manifests[k].platform = <<>> THEN Ret(NilImage, Panic)
    ELSE IF /\ manifests[k].platform[1].os = platform.os
            /\ manifests[k].platform[1].architecture = platform.architecture
    THEN Ret(NilImage, ErrNoMatchingManifest)
    ELSE FindManifest(manifests, platform, k + 1)

\* imageFromIndex looking for the platform in an index of one manifest too.
imageFromIndexMatchingSingle(manifests, platform) ==
    IF Len(manifests) = 0 THEN Ret(NilImage, ErrNoManifest)
    ELSE FindManifest(manifests, platform, 1)

imageFromIndex(manifests, platform) ==
    IF Len(manifests) = 0 THEN Ret(NilImage, ErrNoManifest)
    ELSE IF Len(manifests) = 1 THEN Ret(IndexImage(manifests[1].digest), NoError)
    ELSE FindManifest(manifests, platform, 1)

IndexCall(op, manifests, platform, err) ==
    [op |-> op, manifests |-> manifests, platform |-> platform, err |-> err]

InitIndex ==
    /\ image = NilImage
    /\ previousImage = NilImage
    /\ createdAt = NormalizedDateTime
    /\ preserveHistory = FALSE
    /\ preserveDigest = FALSE
    /\ manifestType = OCIManifest
    /\ overrides = NoOverrides
    /\ mutex = FALSE
    /\ pc = NoSaveRunning
    /\ before = NilImage
    /\ \E manifests \in ManifestLists, requestedPlatform \in RequestedPlatforms :
          last = IndexCall("NewImage", manifests,
                           processDefaultPlatformOption(requestedPlatform), NoError)

DoImageFromIndex ==
    /\ last.op = "NewImage"
    /\ LET r == imageFromIndex(last.manifests, last.platform)
       IN  /\ image' = r.image
           /\ last' = IndexCall("imageFromIndex", last.manifests, last.platform, r.err)
    /\ UNCHANGED <<options, overrides, mutex, pc, before>>

NextIndex == DoImageFromIndex

SpecIndex == InitIndex /\ [][NextIndex]_vars

\* ------------------------------------------- SetEnv, keys that stand twice
\* Environments as a base image may bring them: a key may stand twice.
RepeatedKeyImages ==
    EnvImages \cup
    { WithEnv(Scratch, << EnvEntry(<<"J">>, <<"0">>), EnvEntry(<<"k">>, <<"0">>),
                          EnvEntry(<<"k">>, <<"2">>) >>),
      WithEnv(WindowsBase, << EnvEntry(<<"J">>, <<"0">>), EnvEntry(<<"k">>, <<"0">>),
                              EnvEntry(<<"K">>, <<"2">>) >>) }

InitRepeatedKeys ==
    /\ image \in RepeatedKeyImages
    /\ previousImage = NilImage
    /\ createdAt = NormalizedDateTime
    /\ preserveHistory = FALSE
    /\ preserveDigest = FALSE
    /\ manifestType = OCIManifest
    /\ overrides = NoOverrides
    /\ mutex = FALSE
    /\ pc = NoSaveRunning
    /\ before = image
    /\ last = EnvCall("NewImage", <<>>, <<>>, "none", {})

SpecRepeatedKeys == InitRepeatedKeys /\ [][NextEnv]_vars

\* --------------------------------------- layers and setters in one session
SetHistory(img, histories, fault) ==
    MutateConfigFile(img, [img.config EXCEPT !.history = histories], fault)

DoSetHistory ==
    /\ Alive
    /\ \E histories \in {<<>>, <<RunMake>>}, fault \in SetterFaults :
          Returned(SetterCall("SetHistory", histories, fault),
                   SetHistory(image, histories, fault))

InitLayers ==
    /\ image \in {NoHistory, ShortHistory}
    /\ previousImage = LongHistory
    /\ createdAt = BuildTime
    /\ preserveHistory = TRUE
    /\ preserveDigest = FALSE
    /\ manifestType = OCIManifest
    /\ overrides = NoOverrides
    /\ mutex = FALSE
    /\ pc = NoSaveRunning
    /\ before = image
    /\ last = Call("NewImage", "", emptyHistory, NilImage, "none")

NextLayers ==
    \/ DoAddLayer
    \/ DoAddLayerWithHistory
    \/ DoReuseLayer
    \/ DoReuseLayerWithHistory
    \/ DoSetOS
    \/ DoSetEnvOnce
    \/ DoSetHistory

SpecLayers == InitLayers /\ [][NextLayers]_vars

\* --------------------------------------------------------------------- Env
\* Env(key): the value of the first entry that splits at "=" into exactly
\* two parts of which the first is key; the empty string when there is none.
RECURSIVE EnvFrom(_, _, _)
EnvFrom(env, key, idx) ==
    IF idx > Len(env) THEN <<>>
    ELSE LET parts == Split(env[idx])
         IN  IF Len(parts) = 2 /\ parts[1] = key THEN parts[2]
             ELSE EnvFrom(env, key, idx + 1)

Env(img, key) ==
    IF img.isNil THEN [value |-> <<>>, err |-> Panic]
    ELSE [value |-> EnvFrom(img.config.env, key, 1), err |-> NoError]

\* A read of key after SetEnv(set[1], set[2]): what Env returned.
EnvRead(key, set, r, assigned) ==
    [op |-> "Env", key |-> key, set |-> set, got |-> r.value, fault |-> "none",
     err |-> r.err, assigned |-> assigned]

DoEnv ==
    /\ Alive
    /\ last.op = "SetEnv"
    /\ last.err = NoError
    /\ \E key \in EnvKeys :
          last' = EnvRead(key, <<last.key, last.val>>, Env(image, key), last.assigned)
    /\ UNCHANGED <<image, options, overrides, mutex, pc, before>>

NextRoundTrip ==
    \/ DoSetEnv
    \/ DoEnv

SpecRoundTrip == InitEnv /\ [][NextRoundTrip]_vars

\* =================================================================== claims
Succeeded(op) == last.op = op /\ last.err = NoError

AddSucceeded == Succeeded("AddLayer") \/ Succeeded("AddLayerWithHistory")

LastHistory(img) == img.config.history[Len(img.config.history)]

\* C1: after every successful AddLayer / AddLayerWithHistory, whatever the
\* image was before (its history may have been shorter or longer than its
\* diff IDs), the config has as many history entries as diff IDs.
C1_HistoryAsLongAsDiffIDs ==
    AddSucceeded => Len(image.config.history) = Len(image.config.diffIDs)

\* A layer was added to an image whose history was shorter than its diff IDs.
C1_Witness ==
    /\ AddSucceeded
    /\ Len(before.config.history) < Len(before.config.diffIDs)

\* C2 as stated: the last entry carries createdAt when history is preserved
\* and the empty marker's timestamp when it is not.
C2_Original ==
    Succeeded("AddLayerWithHistory") =>
        LastHistory(image).created =
            IF preserveHistory THEN createdAt ELSE emptyHistory.created

\* C2 amended: after a successful AddLayerWithHistory the last history entry
\* carries createdAt whether or not history is preserved; when it is not
\* preserved the entry is the empty marker re-stamped with createdAt.
C2_LastEntryStamped ==
    Succeeded("AddLayerWithHistory") =>
        /\ LastHistory(image).created = createdAt
        /\ preserveHistory =>
              LastHistory(image) = [last.history EXCEPT !.created = createdAt]
        /\ ~preserveHistory =>
              LastHistory(image) = [emptyHistory EXCEPT !.created = createdAt]

\* A caller's entry was dropped and the marker stamped with a build time that
\* is not the marker's own timestamp.
C2_Witness ==
    /\ Succeeded("AddLayerWithHistory")
    /\ ~preserveHistory
    /\ createdAt # emptyHistory.created
    /\ last.history # emptyHistory

\* C3 as stated: a successful AddLayerWithHistory makes the diff-ID list and
\* the history list each exactly one longer than they were.
C3_Original ==
    Succeeded("AddLayerWithHistory") =>
        /\ Len(image.config.diffIDs) = Len(before.config.diffIDs) + 1
        /\ Len(image.config.history) = Len(before.config.history) + 1

\* C3 amended: a successful AddLayerWithHistory makes the diff-ID list exactly
\* one longer, keeps the diff IDs it had, and leaves the history one longer
\* than the diff-ID list was; the history grows by exactly one when it was as
\* long as the diff-ID list before the call.
C3_OneMoreLayer ==
    Succeeded("AddLayerWithHistory") =>
        /\ image.config.diffIDs = Append(before.config.diffIDs, last.diffID)
        /\ image.layers = Append(before.layers, last.diffID)
        /\ Len(image.config.history) = Len(before.config.diffIDs) + 1
        /\ Len(before.config.history) = Len(before.config.diffIDs) =>
              image.config.history =
                  Append(before.config.history, LastHistory(image))

\* A layer was added to an image that had more history entries than layers.
C3_Witness ==
    /\ Succeeded("AddLayerWithHistory")
    /\ Len(before.config.history) > Len(before.config.diffIDs)


\* The entry h with its creation time left out of the comparison.
Unstamped(h) == [h EXCEPT !.created = ZeroTime]

PreviousNormalizedHistory ==
    NormalizedHistory(previousImage.config.history,
                      Len(previousImage.config.diffIDs))

\* C4 (history-preserving sessions): after a successful ReuseLayer(d) the
\* last history entry is, creation time aside, the entry of the previous
\* image's normalized history at the position of d in its diff IDs.
C4_ReusedHistoryIsNormalizedEntry ==
    (Succeeded("ReuseLayer") /\ preserveHistory) =>
        Unstamped(LastHistory(image)) =
            Unstamped(PreviousNormalizedHistory[
                FirstIndex(previousImage.config.diffIDs, last.diffID)])

\* C5: ReuseLayer on a session without a previous image returns the "no
\* previous image" error and the working image is what it was.
C5_NoPreviousImage ==
    (last.op = "ReuseLayer" /\ previousImage.isNil) =>
        /\ last.err = ErrNoPreviousImage
        /\ image = before

\* ReuseLayer was called for a well-formed diff ID on a working image that
\* has layers, in a session without a previous image.
C5_Witness ==
    /\ last.op = "ReuseLayer"
    /\ previousImage.isNil
    /\ last.diffID \in DiffIDs
    /\ Len(before.layers) > 0

\* The previous image exists and the diff ID is none of its diff IDs.
AbsentFromPrevious(diffID) ==
    /\ ~previousImage.isNil
    /\ diffID \in DiffIDs
    /\ FirstIndex(previousImage.config.diffIDs, diffID) = 0

\* C6: ReuseLayer(d) with d not among the previous image's diff IDs fails
\* with the layer-not-found error; the working image, its layers and its
\* history are what they were.
C6_ReuseOfAbsentLayer ==
    (last.op = "ReuseLayer" /\ AbsentFromPrevious(last.diffID)) =>
        /\ last.err = ErrLayerNotFound
        /\ image = before

\* ReuseLayer was called with a diff ID the previous image does not have,
\* which the working image does have.
C6_Witness ==
    /\ last.op = "ReuseLayer"
    /\ AbsentFromPrevious(last.diffID)
    /\ FirstIndex(before.layers, last.diffID) # 0


\* The layers of the image before the call that lie strictly above the first
\* layer whose diff ID is the one passed to the call.
LayersAboveTop ==
    SubSeq(before.layers,
           FirstIndex(before.layers, last.diffID) + 1,
           Len(before.layers))

Suffix(seq, n) == SubSeq(seq, Len(seq) - n + 1, Len(seq))

\* C7: after a successful Rebase(topID, newBase) the layers that lay above
\* the first topID layer are the final layers of the image, with the same
\* diff IDs in the same order, in the layer list and in the config.
C7_LayersAboveTopKept ==
    Succeeded("Rebase") =>
        /\ Len(image.layers) >= Len(LayersAboveTop)
        /\ Suffix(image.layers, Len(LayersAboveTop)) = LayersAboveTop
        /\ Suffix(image.config.diffIDs, Len(LayersAboveTop)) = LayersAboveTop

\* A rebase kept two different layers, above a top layer whose diff ID occurs
\* once more among them.
C7_Witness ==
    /\ Succeeded("Rebase")
    /\ Len(LayersAboveTop) = 2
    /\ LayersAboveTop[1] # LayersAboveTop[2]
    /\ FirstIndex(LayersAboveTop, last.diffID) # 0

\* C8: after a successful Rebase(topID, newBase) the layer list is newBase's
\* layer list followed by the layers that lay above topID.
C8_RebasedLayers ==
    Succeeded("Rebase") =>
        image.layers = last.newBase.layers \o LayersAboveTop

\* A rebase replaced two layers by the one layer of a new base and kept the
\* layer above them.
C8_Witness ==
    /\ Succeeded("Rebase")
    /\ FirstIndex(before.layers, last.diffID) = 2
    /\ Len(LayersAboveTop) = 1
    /\ Len(last.newBase.layers) = 1
    /\ last.newBase.layers[1] # before.layers[1]

\* C9: after a successful Rebase the config has the architecture, OS and OS
\* version of newBase's config, and the variant and OS features it had.
C9_RebasedPlatform ==
    Succeeded("Rebase") =>
        /\ image.config.architecture = last.newBase.config.architecture
        /\ image.config.os = last.newBase.config.os
        /\ image.config.osVersion = last.newBase.config.osVersion
        /\ image.config.variant = before.config.variant
        /\ image.config.osFeatures = before.config.osFeatures

\* A rebase onto a new base that differs from the image in all five fields,
\* the image having a variant and OS features of its own.
C9_Witness ==
    /\ Succeeded("Rebase")
    /\ before.config.architecture # last.newBase.config.architecture
    /\ before.config.os # last.newBase.config.os
    /\ before.config.osVersion # last.newBase.config.osVersion
    /\ before.config.variant # last.newBase.config.variant
    /\ before.config.osFeatures # last.newBase.config.osFeatures
    /\ before.config.variant # ""
    /\ before.config.osFeatures # <<>>

\* C10: Rebase with a diff ID that none of the working image's layers has
\* fails with "could not find base layer in image" and the working image is
\* what it was before the call.
C10_FailedRebaseLeavesImage ==
    (/\ last.op = "Rebase"
     /\ ~before.isNil
     /\ FirstIndex(before.layers, last.diffID) = 0) =>
        /\ last.err = ErrBaseLayerNotFound
        /\ image = before

\* Positions of the entries of env whose key (what stands before the first
\* "=") is key on an image with the given OS.
EnvPositions(env, os, key) ==
    { n \in 1..Len(env) : SameEnvKey(os, Split(env[n])[1], key) }

\* C11: after any sequence of successful SetEnv calls on an environment that
\* had no key twice, each key that was set has exactly one entry, and the
\* entry carries the value last set for that key.
C11_OneEntryPerKeySet ==
    ~image.isNil =>
        \A a \in last.assigned :
            LET at == EnvPositions(image.config.env, image.config.os, a[1])
            IN  /\ Cardinality(at) = 1
                /\ \A n \in at : image.config.env[n] = EnvEntry(a[1], a[2])

\* SetEnv replaced the value set for the same key by an earlier call, two
\* keys being set by then.
C11_Witness ==
    /\ Succeeded("SetEnv")
    /\ Cardinality(last.assigned) >= 2
    /\ \E v \in EnvValues :
          /\ v # last.val
          /\ \E n \in 1..Len(before.config.env) :
                before.config.env[n] = EnvEntry(last.key, v)

\* SaveAs got as far as writing to the destinations.
SaveReachedDestinations ==
    /\ last.op = "SaveAs"
    /\ last.err \in {NoError, ErrSave, ErrInitIndex}

\* C12: once SaveAs writes to the destinations, every destination of name
\* and additionalNames is attempted, and every destination that does not
\* fail is written, whatever happened at the other destinations.
C12_EveryDestinationAttempted ==
    SaveReachedDestinations =>
        /\ last.attempted = last.paths
        /\ \A d \in Range(last.paths) :
              last.outcome[d] = "ok" => d \in Range(last.written)

\* The destinations of the last SaveAs whose write failed, in the order of
\* the call.
FailedDestinations ==
    SelectSeq(last.paths, LAMBDA d : last.outcome[d] # "ok")

\* C13 (for saves in which every index could be initialized): SaveAs
\* succeeds exactly when no destination failed; otherwise it returns the
\* aggregate error with one diagnostic per failed destination, each named
\* after the destination that failed.
C13_OneDiagnosticPerFailedDestination ==
    (/\ SaveReachedDestinations
     /\ \A d \in Range(last.paths) : last.outcome[d] # "init") =>
        /\ last.err = NoError <=> FailedDestinations = <<>>
        /\ FailedDestinations # <<>> =>
              /\ last.err = ErrSave
              /\ Len(last.diagnostics) = Len(FailedDestinations)
              /\ \A n \in 1..Len(FailedDestinations) :
                    last.diagnostics[n].imageName = FailedDestinations[n]

\* The manifest has a platform and its five fields are those of the config.
Mirrored(img) ==
    /\ img.platform # NoPlatform
    /\ img.platform[1] = Platform(img.config.os, img.config.architecture,
                                  img.config.variant, img.config.osVersion,
                                  img.config.osFeatures)

\* C14: after every successful setter and every successful Rebase the
\* manifest's platform has the OS, architecture, variant, OS version and OS
\* features of the config; no sequence of them reaches an image in which a
\* mirrored field differs.
C14_PlatformMirrored ==
    (last.op # "NewImage" /\ last.err = NoError) => Mirrored(image)

\* A setter changed a field of an image whose manifest already had a
\* platform, and that platform had a variant.
C14_Witness ==
    /\ last.op \in {"SetOS", "SetArchitecture", "SetVariant", "SetOSVersion", "SetOSFeatures"}
    /\ last.err = NoError
    /\ before.platform # NoPlatform
    /\ before.platform[1] # image.platform[1]
    /\ before.config.variant # image.config.variant

\* What a read returns given the override and the manifest's value: the
\* override when there is one, else the manifest's value, else the
\* "undefined" error that names the manifest format.
OverrideFirst(result, override, inManifest, none) ==
    IF override # none THEN result.err = NoError /\ result.value = override
    ELSE IF inManifest # none THEN result.err = NoError /\ result.value = inManifest
    ELSE result.err = ErrUndefined /\ result.format = manifestType

\* C15: Features(), URLs() and Annotations() return the session's override
\* when one has been set, the manifest's value only when none has been set,
\* and otherwise fail with "undefined for <format>", naming the manifest
\* format.
C15_OverrideBeforeManifest ==
    /\ last.op = "Features" =>
          OverrideFirst(last.result, before.features,
                        IF image.platform = NoPlatform THEN <<>> ELSE image.features, <<>>)
    /\ last.op = "URLs" =>
          OverrideFirst(last.result, before.urls, image.urls, <<>>)
    /\ last.op = "Annotations" =>
          OverrideFirst(last.result, before.annotations, image.annotations, NoMap)

\* Features() was read with an override set on an image whose manifest has
\* features of its own.
C15_Witness ==
    /\ last.op = "Features"
    /\ before.features # <<>>
    /\ image.platform # NoPlatform
    /\ image.features # <<>>
    /\ before.features # image.features

\* The invocation is inside the closure: past its TryLock, its Unlock still
\* to come.
InClosure(s) == pc[s] > 1 /\ pc[s] <= Len(ClosureSteps)

\* C16: of two concurrent SaveAs invocations on one image at most one is
\* inside the manifest-mutation closure at a time; the invocation inside it
\* holds the mutex for as long as it is inside, and the mutex is unlocked
\* only by the invocation that holds it.
C16_ClosureMutuallyExclusive ==
    pc # NoSaveRunning =>
        /\ \A s, t \in Savers : (InClosure(s) /\ InClosure(t)) => s = t
        /\ \A s \in Savers : InClosure(s) => (mutex /\ last.holder = s)
        /\ last.released[1] = last.released[2]

\* SaveAs ran without digest preservation and its stamping went through.
Stamped == last.op = "SaveAs" /\ ~preserveDigest /\ ~image.isNil

\* C17: after SaveAs without digest preservation has stamped the image, the
\* config's creation time is createdAt, the history is as long as before and
\* every entry's creation time is createdAt; with history preservation the
\* other fields of each entry are kept, without it they are cleared.
C17_StampedConfigAndHistory ==
    Stamped =>
        /\ image.config.created = createdAt
        /\ Len(image.config.history) = Len(before.config.history)
        /\ \A j \in 1..Len(image.config.history) :
              /\ image.config.history[j].created = createdAt
              /\ image.config.history[j].createdBy =
                    (IF preserveHistory THEN before.config.history[j].createdBy ELSE "")
              /\ image.config.history[j].emptyLayer =
                    (IF preserveHistory THEN before.config.history[j].emptyLayer ELSE FALSE)

\* History was preserved, and an entry that had another creation time, a
\* command and the empty-layer mark was stamped.
C17_Witness ==
    /\ Stamped
    /\ preserveHistory
    /\ \E j \in 1..Len(before.config.history) :
          /\ before.config.history[j].created # createdAt
          /\ before.config.history[j].createdBy # ""
          /\ before.config.history[j].emptyLayer
    /\ before.config.created # createdAt

\* The descriptor has the platform's OS and architecture.
MatchesPlatform(descriptor, platform) ==
    /\ descriptor.platform # <<>>
    /\ descriptor.platform[1].os = platform.os
    /\ descriptor.platform[1].architecture = platform.architecture

\* C18: for an index that holds more than one manifest, imageFromIndex
\* returns without error the image of the first manifest whose OS and
\* architecture are those of the requested platform.
C18_FirstMatchingManifest ==
    (last.op = "imageFromIndex" /\ Len(last.manifests) > 1) =>
        \A k \in 1..Len(last.manifests) :
            (/\ MatchesPlatform(last.manifests[k], last.platform)
             /\ \A j \in 1..(k - 1) : ~MatchesPlatform(last.manifests[j], last.platform))
            => (last.err = NoError /\ image = IndexImage(last.manifests[k].digest))

ReuseSucceeded == Succeeded("ReuseLayer") \/ Succeeded("ReuseLayerWithHistory")

\* C19: from any base image, one whose history is shorter than its diff IDs
\* included, after each successful ReuseLayer or ReuseLayerWithHistory the
\* working image's history is as long as its list of diff IDs.
C19_ReuseKeepsHistoryAsLongAsDiffIDs ==
    ReuseSucceeded =>
        Len(image.config.history) = Len(image.config.diffIDs)

\* C20: after a successful ReuseLayerWithHistory(d, h) the appended history
\* entry is h with only its creation time replaced by createdAt when history
\* is preserved, and the empty-layer marker when it is not; in both cases
\* the appended layer has diff ID d and is a layer of the previous image.
C20_ReusedEntryAndLayer ==
    Succeeded("ReuseLayerWithHistory") =>
        /\ Len(image.config.history) = Len(before.config.history) + 1
        /\ LastHistory(image) =
              (IF preserveHistory
               THEN History(createdAt, last.history.createdBy, last.history.emptyLayer)
               ELSE emptyHistory)
        /\ image.layers = Append(before.layers, last.diffID)
        /\ image.config.diffIDs = Append(before.config.diffIDs, last.diffID)
        /\ ~previousImage.isNil
        /\ \E n \in 1..Len(previousImage.layers) : previousImage.layers[n] = last.diffID

\* History was preserved and the caller's entry, which had a command and
\* another creation time, was appended.
C20_Witness ==
    /\ Succeeded("ReuseLayerWithHistory")
    /\ preserveHistory
    /\ last.history.createdBy # ""
    /\ last.history.created # createdAt

\* The entry's key, what stands before its first "=", is key as the OS
\* compares keys.
EntryHasKey(entry, os, key) == SameEnvKey(os, Split(entry)[1], key)

\* C21: SetEnv(key, value) replaces, where it stands, the first entry whose
\* key matches key (without regard to case exactly when the OS is
\* "windows"), leaving the number and order of the other entries as they
\* were, and appends an entry at the end only when no entry matches.
C21_ReplacedInPlaceOrAppended ==
    Succeeded("SetEnv") =>
        LET old == before.config.env
            new == image.config.env
            os == before.config.os
            matching == { n \in 1..Len(old) : EntryHasKey(old[n], os, last.key) }
        IN  IF matching = {}
            THEN new = Append(old, EnvEntry(last.key, last.val))
            ELSE /\ Len(new) = Len(old)
                 /\ \A n \in 1..Len(old) :
                       new[n] = IF n \in matching /\ \A m \in matching : n <= m
                                THEN EnvEntry(last.key, last.val)
                                ELSE old[n]

\* On windows an entry that was not the first one, and whose key is written
\* in the other case, was replaced where it stood; a later entry with the
\* same key was left alone.
C21_Witness ==
    /\ Succeeded("SetEnv")
    /\ before.config.os = "windows"
    /\ Len(before.config.env) = Len(image.config.env)
    /\ \E n \in 2..Len(before.config.env) :
          /\ Split(before.config.env[n])[1] # last.key
          /\ image.config.env[n] = EnvEntry(last.key, last.val)
          /\ image.config.env[n] # before.config.env[n]
          /\ \E m \in (n + 1)..Len(before.config.env) :
                /\ EntryHasKey(before.config.env[m], "windows", last.key)
                /\ image.config.env[m] = before.config.env[m]

\* C22: with digest preservation SaveAs changes neither the config (creation
\* time, history) nor the manifest of the wrapped image: the image handed to
\* the destinations is the image that was wrapped before the call.
C22_PreservedDigestImageUntouched ==
    (last.op = "SaveAs" /\ preserveDigest) => image = before

\* With digest preservation an image was written whose creation time and
\* history a stamping would have changed.
C22_Witness ==
    /\ last.op = "SaveAs"
    /\ preserveDigest
    /\ last.written # <<>>
    /\ image.config.created # createdAt
    /\ \E j \in 1..Len(image.config.history) : image.config.history[j].created # createdAt
    /\ image.platform = NoPlatform

NoneMatches(manifests, platform) ==
    \A k \in 1..Len(manifests) : ~MatchesPlatform(manifests[k], platform)

OneMoreAtEnd(old, new) ==
    /\ Len(new) = Len(old) + 1
    /\ SubSeq(new, 1, Len(old)) = old

\* C24: outside Rebase layers are only appended: for every successful
\* AddLayer, ReuseLayer or ReuseLayerWithHistory the diff IDs before the call
\* are a proper prefix of the diff IDs after it, and after every successful
\* setter the diff IDs are the ones before it.
C24_LayersAppendOnly ==
    /\ (AddSucceeded \/ ReuseSucceeded) =>
          /\ OneMoreAtEnd(before.config.diffIDs, image.config.diffIDs)
          /\ OneMoreAtEnd(before.layers, image.layers)
    /\ (last.op \in {"SetOS", "SetEnv", "SetHistory"} /\ last.err = NoError) =>
          /\ image.config.diffIDs = before.config.diffIDs
          /\ image.layers = before.layers

\* A layer was added to an image of two layers whose history was shorter
\* than its diff IDs, after a setter had written its config.
C24_Witness ==
    /\ Succeeded("AddLayer")
    /\ Len(before.config.diffIDs) = 2
    /\ Len(before.config.history) < 2
    /\ before.config.env # <<>>

\* C25: ReuseLayerWithHistory called on a session that has no previous image
\* returns the "no previous image" error as an ordinary error, without
\* dereferencing the missing image, and leaves the working image as it was.
C25_ReuseWithHistoryNoPreviousImage ==
    (/\ last.op = "ReuseLayerWithHistory"
     /\ previousImage.isNil
     /\ ~NewHashFails(last.diffID)) =>
        /\ last.err = ErrNoPreviousImage
        /\ image = before

\* The call failed in the underlying append, config write or manifest write.
WriteFailed == last.err \in {ErrAppend, ErrConfigWrite, ErrManifestWrite}

\* C26: when AddLayerWithHistory, ReuseLayerWithHistory or MutateConfigFile
\* (here through SetOS, SetEnv and SetHistory) returns an error of the
\* underlying append, config write or manifest write, the working image is
\* the image it was before the call.
C26_FailedMutationLeavesImage ==
    (/\ last.op \in {"AddLayer", "AddLayerWithHistory", "ReuseLayer",
                     "ReuseLayerWithHistory", "SetOS", "SetEnv", "SetHistory"}
     /\ WriteFailed) =>
        image = before

\* C27: after a successful SetEnv(k, v), Env(k) returns v, for every key and
\* every value (values that contain "=" included); on an image whose OS is
\* "windows" Env finds the entry under the comparison without regard to
\* case by which SetEnv matched it.
C27_EnvReturnsWhatWasSet ==
    (/\ last.op = "Env"
     /\ SameEnvKey(image.config.os, last.key, last.set[1])) =>
        /\ last.err = NoError
        /\ last.got = last.set[2]

====
